---------------------------- MODULE Spec2Model ----------------------------
(***************************************************************************)
(* Page-table and frame management of src/pa2.c (first, complete variant,  *)
(* lines 63-255): alloc_page, free_page, handle_page_fault and             *)
(* switch_process over the global ready queue, current process, ptbr and   *)
(* mapcounts[].                                                            *)
(*                                                                         *)
(* Memory obtained from malloc() is not initialised by the code (lines 68, *)
(* 201, 210, 233): its content is a nondeterministic choice made when the  *)
(* block is obtained.  A NULL or wild pointer dereference ends the program *)
(* (crashed).  The unbounded frame scans (lines 80, 148) run past the end  *)
(* of mapcounts[] into the adjacent memory words.                          *)
(***************************************************************************)
EXTENDS Integers, Sequences, FiniteSets

(* ------------------------------ sizes --------------------------------- *)
\* vm.h (not part of src/): entries per directory and directories per table.
\* The header has 16; scaled down, keeping NR_PAGEFRAMES / NR_PTES_PER_PAGE
\* smaller than the number of directories as in the header (128 / 16 < 16).
NR_PTES_PER_PAGE == 2
\* vm.h: number of page frames (128 in the header).
NR_PAGEFRAMES == 2

\* Largest pid the driver asks for.
MaxPid == 1
\* Number of calls the driver issues in one run.
MaxCalls == 4
\* Memory words behind mapcounts[] that the unbounded scan can reach.
OobWords == 1
\* Number of calls of the longer runs, which start from zero-filled memory.
DeepCalls == MaxCalls + 1

Dirs == 0 .. NR_PTES_PER_PAGE - 1
VPNs == 0 .. NR_PTES_PER_PAGE * NR_PTES_PER_PAGE - 1
Frames == 0 .. NR_PAGEFRAMES - 1
Words == 0 .. NR_PAGEFRAMES + OobWords - 1
Slots == 0 .. DeepCalls
Pids == 0 .. MaxPid
\* Access kinds the driver passes: read, write, read+write (bit 1 is write).
RWs == {1, 2, 3}

\* pd_index / pte_index of a vpn (lines 65-66, 106-107, 137-138).
pd_index(vpn) == vpn \div NR_PTES_PER_PAGE
pte_index(vpn) == vpn % NR_PTES_PER_PAGE
DirVpns(d) == {v \in VPNs : pd_index(v) = d}

\* Mutant: only a pure write counts as a write, read+write does not.
IsWriteOnly(rw) == rw = 2

\* The write bit of an access, as the code tests it (lines 72, 140).
IsWrite(rw) == rw = 2 \/ rw = 3

\* Directories walked by the two loops of switch_process (lines 206, 229).
WalkedDirs == {i \in Dirs : i < NR_PAGEFRAMES \div NR_PTES_PER_PAGE}

(* ------------------------------ state --------------------------------- *)
VARIABLES
  processes,   \* ready queue: the pids in list order; slot k is the k-th
  current,     \* slot of the current process (0 is the initial process)
  ptbr,        \* slot whose page table the MMU walks
  outer_ptes,  \* [slot][dir]: "null", "wild" (uninitialised, not NULL), "heap"
  ptes,        \* [slot][vpn]: the PTE outer_ptes[pd_index]->ptes[pte_index]
  mapcounts,   \* [word]: mapcounts[] followed by the adjacent memory words
  crashed,     \* the program was ended by an invalid memory access
  calls,       \* number of calls issued so far
  heap,        \* what this run's malloc() hands out: pointer and PTE fill
  op,          \* the last call: name, arguments, result, and what it found
  alloced      \* [slot][vpn]: history of the mapping: "r"/"w" the access the
               \* process allocated it with ("r" also for a child's copy of
               \* such a page), "none" otherwise

vars == <<processes, current, ptbr, outer_ptes, ptes, mapcounts, crashed, calls, heap, op,
          alloced>>

\* struct pte (vm.h): a zero-filled entry.
ZeroPTE == [valid |-> FALSE, writable |-> FALSE, private |-> 0, pfn |-> 0]

\* Content of malloc()ed memory that the code reads before writing it.
\* A fresh block is zero-filled, or is recycled memory that holds stale
\* entries: one that was freed but still marked, or one that is still set.
StalePrivate == [valid |-> FALSE, writable |-> FALSE, private |-> 1, pfn |-> 0]
StaleMapped == [valid |-> TRUE, writable |-> TRUE, private |-> 1, pfn |-> NR_PAGEFRAMES - 1]
UninitPTE == {ZeroPTE, StalePrivate, StaleMapped}
UninitPtr == {"null", "wild"}
\* The fill is a property of the run's allocator and is chosen once.
HeapFills ==
  {h \in [ptr : UninitPtr, pte : UninitPTE] : h.ptr = "null" \/ h.pte = ZeroPTE}

\* unsigned int counters are kept as their 32-bit two's complement
\* representative: -1 stands for UINT_MAX after 0-- wraps around.
UGt1(c) == c > 1 \/ c < 0

NoOp == [name |-> "init", vpn |-> 0, rw |-> 0, write |-> FALSE, pid |-> 0, ret |-> 0,
         pfn0 |-> 0, cnt0 |-> 0, valid0 |-> FALSE, paired |-> FALSE]

\* The call being issued comes right after a free_page of a valid entry of
\* the same vpn / after a handle_page_fault of the same vpn that returned true.
AfterFree(vpn) == op.name = "free" /\ op.vpn = vpn /\ op.valid0 /\ ~crashed
AfterFault(vpn) == op.name = "fault" /\ op.vpn = vpn /\ op.ret = 1 /\ ~crashed

Init ==
  /\ processes = <<>>
  /\ current = 0
  /\ ptbr = 0
  /\ outer_ptes = [s \in Slots |-> [d \in Dirs |-> "null"]]
  /\ ptes = [s \in Slots |-> [v \in VPNs |-> ZeroPTE]]
  /\ \E b \in {0, 1} : mapcounts = [w \in Words |-> IF w \in Frames THEN 0 ELSE b]
  /\ crashed = FALSE
  /\ heap \in HeapFills
  /\ calls = 0
  /\ op = NoOp
  /\ alloced = [s \in Slots |-> [v \in VPNs |-> "none"]]

\* An invalid memory access inside a call ends the program: nothing of its
\* memory is left, only that call o did not return.
Crash(o) ==
  /\ crashed' = TRUE
  /\ op' = o
  /\ UNCHANGED heap
  /\ processes' = <<>>
  /\ current' = 0
  /\ ptbr' = 0
  /\ outer_ptes' = [s \in Slots |-> [d \in Dirs |-> "null"]]
  /\ ptes' = [s \in Slots |-> [v \in VPNs |-> ZeroPTE]]
  /\ mapcounts' = [w \in Words |-> 0]
  /\ alloced' = [s \in Slots |-> [v \in VPNs |-> "none"]]

(* --------------------------- frame scan -------------------------------- *)
\* for (i = 0;; i++) if (!mapcounts[i]) ... (lines 80-89, 148-155): the
\* first zero word, in the table or behind it; -1 when the scan leaves the
\* modelled memory without finding one.
\* Mutant: the scan takes the last zero word instead of the first.
ScanFreeLast(mc) ==
  IF \E i \in Words : mc[i] = 0
  THEN CHOOSE i \in Words : mc[i] = 0 /\ \A k \in Words : k > i => mc[k] # 0
  ELSE -1

ScanFree(mc) ==
  IF \E i \in Words : mc[i] = 0
  THEN CHOOSE i \in Words : mc[i] = 0 /\ \A k \in 0 .. i - 1 : mc[k] # 0
  ELSE -1

(* ------------------------------ alloc_page ----------------------------- *)
\* Lines 70-77 and 83: the entry alloc_page leaves for frame f.
AllocEntry(e, rw, f) ==
  [e EXCEPT !.valid = TRUE, !.writable = IsWrite(rw), !.pfn = f]

\* Line 68: the directory alloc_page works on: the existing one, or a fresh
\* malloc()ed one whose content is whatever the heap held.
AllocDirs(s, d) ==
  IF outer_ptes[s][d] = "null"
  THEN [v \in DirVpns(d) |-> heap.pte]
  ELSE [v \in DirVpns(d) |-> ptes[s][v]]

AllocPage(vpn, rw) ==
  LET s == ptbr
      d == pd_index(vpn)
      f == ScanFree(mapcounts)
      o == [name |-> "alloc", vpn |-> vpn, rw |-> rw, write |-> IsWrite(rw), pid |-> 0,
            ret |-> f, pfn0 |-> ptes[s][vpn].pfn, cnt0 |-> 0,
            valid0 |-> ptes[s][vpn].valid, paired |-> AfterFree(vpn)]
  IN
  /\ ~crashed
  /\ IF outer_ptes[s][d] = "wild" \/ f = -1
     THEN Crash([o EXCEPT !.ret = 0])
     ELSE LET dir == AllocDirs(s, d) IN
            /\ outer_ptes' = [outer_ptes EXCEPT ![s][d] = "heap"]
            /\ ptes' = [ptes EXCEPT ![s] = [v \in VPNs |->
                          IF v = vpn THEN AllocEntry(dir[v], rw, f)
                          ELSE IF pd_index(v) = d THEN dir[v]
                          ELSE ptes[s][v]]]
            /\ mapcounts' = [mapcounts EXCEPT ![f] = @ + 1]
            /\ op' = o
            /\ alloced' = [alloced EXCEPT ![s][vpn] = IF IsWrite(rw) THEN "w" ELSE "r"]
            /\ UNCHANGED <<processes, current, ptbr, crashed, heap>>

(* ------------------------------ free_page ------------------------------ *)
\* Lines 110-112: the entry free_page leaves (pfn is not reset).
FreeEntry(e) ==
  [e EXCEPT !.valid = FALSE, !.writable = FALSE, !.private = 0]

\* Mutant: the freed frame is taken to be free whatever its count was.
FreeCountsReset(mc, pfn) == [mc EXCEPT ![pfn] = 0]

\* Mutant: free_page leaves the count of the frame as it is.
FreeCountsKept(mc, pfn) == mc

\* Line 113: mapcounts[pfn]--.
FreeCounts(mc, pfn) == [mc EXCEPT ![pfn] = @ - 1]

FreePage(vpn) ==
  LET s == ptbr
      d == pd_index(vpn)
      e == ptes[s][vpn]
      o == [name |-> "free", vpn |-> vpn, rw |-> 0, write |-> FALSE, pid |-> 0, ret |-> 0,
            pfn0 |-> e.pfn, cnt0 |-> mapcounts[e.pfn], valid0 |-> e.valid,
            paired |-> FALSE]
  IN
  /\ ~crashed
  /\ IF outer_ptes[s][d] # "heap"
     THEN Crash([o EXCEPT !.pfn0 = 0, !.cnt0 = 0, !.valid0 = FALSE])
     ELSE /\ ptes' = [ptes EXCEPT ![s][vpn] = FreeEntry(e)]
          /\ mapcounts' = FreeCounts(mapcounts, e.pfn)
          /\ op' = o
          /\ alloced' = [alloced EXCEPT ![s][vpn] = "none"]
          /\ UNCHANGED <<processes, current, ptbr, outer_ptes, crashed, heap>>

(* --------------------------- handle_page_fault ------------------------- *)
\* Mutant: the test that the entry is not yet writable is left out.
FaultQualifiesWritable(e, rw) == IsWrite(rw) /\ e.private = 1

\* Line 140: the condition under which the fault is handled.
FaultQualifies(e, rw) == ~e.writable /\ IsWrite(rw) /\ e.private = 1

\* Mutant: a frame with a single mapping is copied as well (> 0 for > 1).
FaultCopiesSole(mc, e) == mc[e.pfn] # 0

\* Line 143: the frame is shared, a new frame is taken.
FaultCopies(mc, e) == UGt1(mc[e.pfn])

\* Line 145: the count of the old frame is given up before the scan.
FaultRelease(mc, e) == [mc EXCEPT ![e.pfn] = @ - 1]

HandlePageFault(vpn, rw) ==
  LET s == ptbr
      d == pd_index(vpn)
      e == ptes[s][vpn]
      o == [name |-> "fault", vpn |-> vpn, rw |-> rw, write |-> IsWrite(rw), pid |-> 0,
            ret |-> 0, pfn0 |-> e.pfn, cnt0 |-> mapcounts[e.pfn], valid0 |-> e.valid,
            paired |-> AfterFault(vpn)]
      mc1 == FaultRelease(mapcounts, e)
      f == ScanFree(mc1)
  IN
  /\ ~crashed
  /\ IF outer_ptes[s][d] # "heap"
     THEN Crash([o EXCEPT !.pfn0 = 0, !.cnt0 = 0, !.valid0 = FALSE])
     ELSE IF ~FaultQualifies(e, rw)
     THEN /\ op' = o
          /\ UNCHANGED <<processes, current, ptbr, outer_ptes, ptes, mapcounts, crashed, heap,
                       alloced>>
     ELSE IF ~FaultCopies(mapcounts, e)
     THEN /\ ptes' = [ptes EXCEPT ![s][vpn].writable = TRUE]
          /\ op' = [o EXCEPT !.ret = 1]
          /\ UNCHANGED <<processes, current, ptbr, outer_ptes, mapcounts, crashed, heap, alloced>>
     ELSE IF f = -1
     THEN Crash(o)
     ELSE /\ ptes' = [ptes EXCEPT ![s][vpn].writable = TRUE, ![s][vpn].pfn = f]
          /\ mapcounts' = [mc1 EXCEPT ![f] = @ + 1]
          /\ op' = [o EXCEPT !.ret = 1]
          /\ UNCHANGED <<processes, current, ptbr, outer_ptes, crashed, heap, alloced>>

(* ------------------------------ switch_process ------------------------- *)
\* Mutant: the scan of the ready queue never finds the pid.
FindProcessNone(pid) == 0

\* Lines 191-198: the first process of the ready queue with this pid (0: none).
FindProcess(pid) ==
  IF \E k \in 1 .. Len(processes) : processes[k] = pid
  THEN CHOOSE k \in 1 .. Len(processes) :
         processes[k] = pid /\ \A j \in 1 .. k - 1 : processes[j] # pid
  ELSE 0

\* Lines 209, 232: the directories of the walk that the active table holds.
CopiedDirs(cur) == {i \in WalkedDirs : outer_ptes[cur][i] # "null"}

\* Lines 212-221: the child's entry made from the parent's entry pe; the
\* child's private field keeps its malloc() content g unless line 213 sets it.
ForkEntry(pe, g) ==
  [valid |-> pe.valid,
   writable |-> FALSE,
   private |-> IF pe.writable \/ pe.private = 1 THEN 1 ELSE g,
   pfn |-> pe.pfn]

\* Line 219: one more mapping for the frame of every valid entry walked.
ForkCounts(mc, cur, dirs) ==
  [w \in Words |-> mc[w] + Cardinality({v \in VPNs :
      pd_index(v) \in dirs /\ ptes[cur][v].valid /\ ptes[cur][v].pfn = w})]

\* Mutant: the new process is built in the struct of the current process.
NewSlotCurrent == current

\* Lines 201, 225: the new process is a fresh struct, added at the tail.
NewSlot == Len(processes) + 1

\* Lines 201-226: pid is not in the ready queue.
Fork(pid) ==
  LET c == NewSlot
      cur == ptbr
      dirs == CopiedDirs(cur)
      o == [name |-> "fork", vpn |-> 0, rw |-> 0, write |-> FALSE, pid |-> pid, ret |-> 0,
            pfn0 |-> 0, cnt0 |-> 0, valid0 |-> FALSE, paired |-> FALSE]
  IN
  LET uptr == [i \in Dirs |-> heap.ptr]
      g == [v \in VPNs |-> heap.pte.private]
  IN   IF \E i \in dirs : outer_ptes[cur][i] = "wild" \/ uptr[i] = "wild"
       THEN Crash(o)
       ELSE /\ processes' = Append(processes, pid)
            /\ outer_ptes' = [outer_ptes EXCEPT ![c] =
                 [i \in Dirs |-> IF i \in dirs THEN "heap" ELSE uptr[i]]]
            /\ ptes' = [ptes EXCEPT ![c] = [v \in VPNs |->
                 IF pd_index(v) \in dirs THEN ForkEntry(ptes[cur][v], g[v])
                 ELSE ZeroPTE]]
            /\ mapcounts' = ForkCounts(mapcounts, cur, dirs)
            /\ current' = c
            /\ ptbr' = c
            /\ op' = o
            /\ alloced' = [alloced EXCEPT ![c] = [v \in VPNs |->
                 IF pd_index(v) \in dirs /\ ptes[cur][v].valid /\ alloced[cur][v] = "r"
                 THEN "r" ELSE "none"]]
            /\ UNCHANGED <<crashed, heap>>

\* Lines 235-245: the entry of the found process p made from its entry pe
\* and the entry ce of the active table.
SwitchEntry(ce, pe) ==
  [valid |-> IF ~pe.valid THEN ce.valid ELSE pe.valid,
   writable |-> FALSE,
   private |-> IF ce.writable \/ ce.private = 1 THEN 1 ELSE pe.private,
   pfn |-> IF ~pe.valid THEN ce.pfn ELSE pe.pfn]

\* Line 233: the vpns of p whose directory the walk has to malloc().
SwitchFresh(p, dirs) ==
  {v \in VPNs : pd_index(v) \in dirs /\ outer_ptes[p][pd_index(v)] = "null"}

\* Lines 229-252: pid is in the ready queue, as slot p.
SwitchTo(pid, p) ==
  LET cur == ptbr
      dirs == CopiedDirs(cur)
      o == [name |-> "switch", vpn |-> 0, rw |-> 0, write |-> FALSE, pid |-> pid, ret |-> 0,
            pfn0 |-> 0, cnt0 |-> 0, valid0 |-> FALSE, paired |-> FALSE]
  IN
  IF \E i \in dirs : outer_ptes[cur][i] = "wild" \/ outer_ptes[p][i] = "wild"
  THEN Crash(o)
  ELSE LET g == [v \in SwitchFresh(p, dirs) |-> heap.pte] IN
         /\ outer_ptes' = [outer_ptes EXCEPT ![p] =
              [i \in Dirs |-> IF i \in dirs THEN "heap" ELSE outer_ptes[p][i]]]
         /\ ptes' = [ptes EXCEPT ![p] = [v \in VPNs |->
              IF pd_index(v) \in dirs
              THEN SwitchEntry(ptes[cur][v],
                               IF v \in SwitchFresh(p, dirs) THEN g[v] ELSE ptes[p][v])
              ELSE ptes[p][v]]]
         /\ current' = p
         /\ ptbr' = p
         /\ op' = o
         /\ UNCHANGED <<processes, mapcounts, crashed, heap, alloced>>

SwitchProcess(pid) ==
  /\ ~crashed
  /\ IF FindProcess(pid) = 0 THEN Fork(pid) ELSE SwitchTo(pid, FindProcess(pid))

(* ------------------------------ behaviours ----------------------------- *)
\* The driver issues one call at a time; each runs to completion.
Call(A) == calls < MaxCalls /\ calls' = calls + 1 /\ A

Next ==
  \/ \E vpn \in VPNs, rw \in RWs : Call(AllocPage(vpn, rw))
  \/ \E vpn \in VPNs : Call(FreePage(vpn))
  \/ \E vpn \in VPNs, rw \in RWs : Call(HandlePageFault(vpn, rw))
  \/ \E pid \in Pids : Call(SwitchProcess(pid))

Spec == Init /\ [][Next]_vars

\* The runs in which every malloc()ed block and the memory behind
\* mapcounts[] happen to be zero-filled; the driver issues one call more.
InitZero ==
  /\ Init
  /\ heap = [ptr |-> "null", pte |-> ZeroPTE]
  /\ mapcounts = [w \in Words |-> 0]

CallDeep(A) == calls < DeepCalls /\ calls' = calls + 1 /\ A

NextDeep ==
  \/ \E vpn \in VPNs, rw \in RWs : CallDeep(AllocPage(vpn, rw))
  \/ \E vpn \in VPNs : CallDeep(FreePage(vpn))
  \/ \E vpn \in VPNs, rw \in RWs : CallDeep(HandlePageFault(vpn, rw))
  \/ \E pid \in Pids : CallDeep(SwitchProcess(pid))

SpecDeep == InitZero /\ [][NextDeep]_vars

(* ------------------------------ properties ----------------------------- *)
\* Slots of the processes that exist: the initial one and the ready queue.
Live == 0 .. Len(processes)

\* Number of valid PTEs, over all page tables, whose frame is f.
Mappings(f) ==
  Cardinality({x \in Live \X VPNs : ptes[x[1]][x[2]].valid /\ ptes[x[1]][x[2]].pfn = f})

\* The step is a call of the named operation that returned.
Returned(n) == op'.name = n /\ ~crashed'

\* C1: after any sequence of calls, for every frame f, mapcounts[f] equals
\* the number of valid PTEs of all processes whose frame is f.
C1_MapcountsMatchValidPtes == \A f \in Frames : mapcounts[f] = Mappings(f)

\* C2: a fork leaves every entry of the parent that was writable or private
\* with private set and writable clear, in the parent and in the child.
C2_ForkProtectsBothSides ==
  [][Returned("fork") =>
       \A v \in VPNs :
         (ptes[ptbr][v].writable \/ ptes[ptbr][v].private # 0) =>
           /\ ptes'[ptbr][v].private # 0 /\ ~ptes'[ptbr][v].writable
           /\ ptes'[ptbr'][v].private # 0 /\ ~ptes'[ptbr'][v].writable]_vars

\* C3: a fork raises by exactly 1 the count of the frame of every page that
\* is valid in the parent, anywhere in the virtual page range, and the child's
\* entry has the parent's valid and frame.
C3_ForkSharesEveryValidPage ==
  [][Returned("fork") =>
       \A v \in VPNs :
         ptes[ptbr][v].valid =>
           /\ mapcounts'[ptes[ptbr][v].pfn] = mapcounts[ptes[ptbr][v].pfn] + 1
           /\ ptes'[ptbr'][v].valid
           /\ ptes'[ptbr'][v].pfn = ptes[ptbr][v].pfn]_vars

\* C4: switch_process to a pid of the ready queue only sets current and the
\* active table: no PTE, no directory and no count changes.
C4_SwitchChangesNoEntry ==
  [][Returned("switch") =>
       /\ current' = FindProcess(op'.pid) /\ ptbr' = current'
       /\ ptes' = ptes /\ outer_ptes' = outer_ptes /\ mapcounts' = mapcounts]_vars

\* C5: with a frame of count 0, alloc_page returns the smallest such frame,
\* points the entry of vpn at it and raises its count by 1, no other count
\* changing (the directory pointer of vpn being NULL or a directory).
C5_AllocLowestFreeFrame ==
  [][(/\ op'.name = "alloc"
      /\ outer_ptes[ptbr][pd_index(op'.vpn)] # "wild"
      /\ \E f \in Frames : mapcounts[f] = 0) =>
       /\ ~crashed'
       /\ op'.ret \in Frames
       /\ mapcounts[op'.ret] = 0
       /\ \A k \in Frames : k < op'.ret => mapcounts[k] # 0
       /\ ptes'[ptbr][op'.vpn].pfn = op'.ret
       /\ mapcounts' = [mapcounts EXCEPT ![op'.ret] = @ + 1]]_vars

\* A call of alloc_page returned frame 1 while frame 0 was in use.
C5_Witness ==
  /\ op.name = "alloc" /\ ~crashed /\ op.ret = 1
  /\ mapcounts[0] # 0 /\ mapcounts[1] = 1
  /\ ptes[ptbr][op.vpn].valid /\ ptes[ptbr][op.vpn].pfn = 1

\* C6: with no frame of count 0, alloc_page terminates, returns -1 and
\* touches no word outside the frame table.
C6_AllocExhaustedReturnsSentinel ==
  [][(op'.name = "alloc" /\ \A f \in Frames : mapcounts[f] # 0) =>
       /\ ~crashed'
       /\ op'.ret = -1
       /\ \A w \in Words \ Frames : mapcounts'[w] = mapcounts[w]]_vars

\* C7: handle_page_fault returns true exactly for a write to a valid,
\* non-writable, private entry of the active table; otherwise it returns
\* false and changes no PTE and no count.
C7_FaultTrueIffCow ==
  [][op'.name = "fault" =>
       LET e == ptes[ptbr][op'.vpn]
           cow == /\ outer_ptes[ptbr][pd_index(op'.vpn)] = "heap"
                  /\ op'.write /\ e.valid /\ ~e.writable /\ e.private # 0
       IN  IF cow THEN crashed' \/ op'.ret = 1
           ELSE /\ ~crashed' /\ op'.ret = 0
                /\ ptes' = ptes /\ mapcounts' = mapcounts]_vars

\* Sum of the counts of the frames.
RECURSIVE SumCounts(_, _)
SumCounts(mc, n) == IF n = 0 THEN 0 ELSE mc[n - 1] + SumCounts(mc, n - 1)

\* C8: a COW write fault on a page whose frame has count > 1 lowers that
\* count by 1, raises by 1 the count of the lowest free frame, points the
\* entry at it with writable set, and keeps the sum of the counts; also when
\* no frame is free it terminates with all counts inside the frame table.
C8_FaultCopiesShared ==
  [][LET e == ptes[ptbr][op'.vpn]
         e2 == ptes'[ptbr][op'.vpn]
     IN  (/\ op'.name = "fault" /\ op'.write
          /\ outer_ptes[ptbr][pd_index(op'.vpn)] = "heap"
          /\ e.valid /\ ~e.writable /\ e.private # 0
          /\ e.pfn \in Frames /\ mapcounts[e.pfn] > 1) =>
           /\ ~crashed'
           /\ e2.pfn \in Frames /\ e2.writable
           /\ \A w \in Words \ Frames : mapcounts'[w] = mapcounts[w]
           /\ mapcounts'[e.pfn] = mapcounts[e.pfn] - 1
           /\ e2.pfn # e.pfn => mapcounts'[e2.pfn] = mapcounts[e2.pfn] + 1
           /\ \A k \in Frames : k < e2.pfn /\ k # e.pfn => mapcounts[k] # 0
           /\ SumCounts(mapcounts', NR_PAGEFRAMES) = SumCounts(mapcounts, NR_PAGEFRAMES)]_vars

\* C9: a COW write fault on a page whose frame has count exactly 1 keeps the
\* frame of the entry and every count; it only sets writable and returns true.
C9_FaultKeepsSoleFrame ==
  [][LET e == ptes[ptbr][op'.vpn]
     IN  (/\ op'.name = "fault" /\ op'.write
          /\ outer_ptes[ptbr][pd_index(op'.vpn)] = "heap"
          /\ e.valid /\ ~e.writable /\ e.private # 0
          /\ mapcounts[e.pfn] = 1) =>
           /\ ~crashed' /\ op'.ret = 1
           /\ mapcounts' = mapcounts
           /\ ptes' = [ptes EXCEPT ![ptbr][op'.vpn].writable = TRUE]
           /\ outer_ptes' = outer_ptes]_vars

\* A write fault was handled on a valid page whose frame had count 1.
C9_Witness ==
  /\ op.name = "fault" /\ ~crashed /\ op.ret = 1 /\ op.write /\ op.valid0 /\ op.cnt0 = 1
  /\ ptes[ptbr][op.vpn].valid /\ ptes[ptbr][op.vpn].writable
  /\ ptes[ptbr][op.vpn].pfn = op.pfn0

\* C10: free_page on a valid entry of the active table clears its valid,
\* writable and private, lowers the count of its frame by 1, and changes no
\* other PTE of any process and no other count.
C10_FreeClearsOneEntry ==
  [][LET e == ptes[ptbr][op'.vpn]
     IN  (/\ op'.name = "free"
          /\ outer_ptes[ptbr][pd_index(op'.vpn)] = "heap" /\ e.valid) =>
           /\ ~crashed'
           /\ ~ptes'[ptbr][op'.vpn].valid /\ ~ptes'[ptbr][op'.vpn].writable
           /\ ptes'[ptbr][op'.vpn].private = 0
           /\ mapcounts' = [mapcounts EXCEPT ![e.pfn] = @ - 1]
           /\ \A s \in Slots, v \in VPNs :
                (s # ptbr \/ v # op'.vpn) => ptes'[s][v] = ptes[s][v]]_vars

\* A valid page was freed while another process still maps its frame.
C10_Witness ==
  /\ op.name = "free" /\ ~crashed /\ op.valid0 /\ op.cnt0 = 2 /\ mapcounts[op.pfn0] = 1
  /\ ~ptes[ptbr][op.vpn].valid
  /\ \E s \in Live : s # ptbr /\ ptes[s][op.vpn].valid /\ ptes[s][op.vpn].pfn = op.pfn0

\* C11: free_page on a valid entry followed at once by alloc_page of the same
\* vpn returns the frame the entry held and puts the count of that frame
\* back to what it was before the free.
C11_FreeThenAllocSameFrame ==
  [][(op'.name = "alloc" /\ op'.paired) =>
       /\ ~crashed'
       /\ op'.ret = op.pfn0
       /\ mapcounts'[op.pfn0] = op.cnt0]_vars

\* C11 (amended): the same, for an entry whose frame had count 1 before the
\* free while every frame of lower index was in use.
C11_FreeThenAllocSoleLowest ==
  [][(/\ op'.name = "alloc" /\ op'.paired
      /\ op.cnt0 = 1
      /\ \A k \in 0 .. op.pfn0 - 1 : mapcounts[k] # 0) =>
       /\ ~crashed'
       /\ op'.ret = op.pfn0
       /\ mapcounts'[op.pfn0] = op.cnt0]_vars

\* A page on frame 1 (count 1, frame 0 in use) was freed and allocated
\* again at once: it is on frame 1 again, with count 1.
C11_Witness ==
  /\ op.name = "alloc" /\ ~crashed /\ op.paired
  /\ op.pfn0 = 1 /\ op.ret = 1 /\ mapcounts[1] = 1 /\ mapcounts[0] # 0
  /\ ptes[ptbr][op.vpn].valid /\ ptes[ptbr][op.vpn].pfn = 1

\* C12: a page allocated read-only, and a child's copy of it, is never
\* writable and never private while it stays valid, and a write fault on it
\* returns false.
C12_ReadOnlyStaysReadOnly ==
  [][~crashed' =>
       /\ \A s \in 0 .. Len(processes'), v \in VPNs :
            (alloced'[s][v] = "r" /\ ptes'[s][v].valid) =>
              ~ptes'[s][v].writable /\ ptes'[s][v].private = 0
       /\ (/\ op'.name = "fault" /\ op'.write
           /\ alloced[ptbr][op'.vpn] = "r" /\ ptes[ptbr][op'.vpn].valid) =>
            op'.ret = 0]_vars

\* C13: after alloc_page(vpn, rw) returned, the entry of vpn in the active
\* table is valid, it is writable exactly when bit 1 of rw is set, and the
\* directory of vpn exists.
C13_AllocSetsValidAndWritable ==
  [][Returned("alloc") =>
       /\ ptes'[ptbr][op'.vpn].valid
       /\ ptes'[ptbr][op'.vpn].writable <=> ((op'.rw \div 2) % 2 = 1)
       /\ outer_ptes'[ptbr][pd_index(op'.vpn)] = "heap"
       /\ \A s \in Slots, d \in Dirs :
            (s # ptbr \/ d # pd_index(op'.vpn)) => outer_ptes'[s][d] = outer_ptes[s][d]]_vars

\* The first call was alloc_page with read+write: the directory, absent
\* before, exists and the entry is valid and writable.
C13_Witness ==
  /\ calls = 1 /\ op.name = "alloc" /\ ~crashed /\ op.rw = 3
  /\ outer_ptes[ptbr][pd_index(op.vpn)] = "heap"
  /\ ptes[ptbr][op.vpn].valid /\ ptes[ptbr][op.vpn].writable

\* C14: every PTE of every process that is not valid is neither writable
\* nor private.
C14_InvalidEntryHasNoPermission ==
  \A s \in Live, v \in VPNs :
    (outer_ptes[s][pd_index(v)] = "heap" /\ ~ptes[s][v].valid) =>
      ~ptes[s][v].writable /\ ptes[s][v].private = 0

\* C15: free_page on an entry that is not valid, or whose directory is
\* absent, changes no count and leaves no count below 0 (the program being
\* ended by the call counts as the error being detected).
C15_FreeInvalidChangesNoCount ==
  [][(/\ op'.name = "free"
      /\ \/ outer_ptes[ptbr][pd_index(op'.vpn)] # "heap"
         \/ ~ptes[ptbr][op'.vpn].valid) =>
       \/ crashed'
       \/ /\ mapcounts' = mapcounts
          /\ \A w \in Words : mapcounts'[w] >= 0]_vars

\* C16: a write fault on a vpn right after a fault on the same vpn that
\* returned true returns false and changes no PTE, directory or count.
C16_SecondFaultReturnsFalse ==
  [][(op'.name = "fault" /\ op'.paired /\ op'.write) =>
       /\ ~crashed'
       /\ op'.ret = 0
       /\ ptes' = ptes /\ outer_ptes' = outer_ptes /\ mapcounts' = mapcounts]_vars

\* A write fault was repeated right after it had returned true: it returned
\* false and the entry is the writable one the first call left.
C16_Witness ==
  /\ op.name = "fault" /\ ~crashed /\ op.paired /\ op.write /\ op.ret = 0
  /\ op.valid0
  /\ ptes[ptbr][op.vpn].valid /\ ptes[ptbr][op.vpn].writable
  /\ ptes[ptbr][op.vpn].private = 1

\* C17: a fork leaves valid and frame of every entry of the parent, and the
\* parent's directories, as they were, and changes nothing of any process
\* other than the parent and the new child.
C17_ForkKeepsParentMappings ==
  [][Returned("fork") =>
       LET parent == ptbr
           child == Len(processes')
       IN  /\ child = Len(processes) + 1 /\ child # parent
           /\ \A v \in VPNs :
                /\ ptes'[parent][v].valid = ptes[parent][v].valid
                /\ ptes'[parent][v].pfn = ptes[parent][v].pfn
           /\ outer_ptes'[parent] = outer_ptes[parent]
           /\ \A s \in Slots \ {parent, child} :
                ptes'[s] = ptes[s] /\ outer_ptes'[s] = outer_ptes[s]
           /\ \A k \in 1 .. Len(processes) : processes'[k] = processes[k]]_vars

\* A process of the ready queue with a valid page forked while another
\* process with a valid page existed; the parent's page is still mapped.
C17_Witness ==
  /\ op.name = "fork" /\ ~crashed /\ Len(processes) = 2 /\ current = 2
  /\ \E v \in VPNs : ptes[1][v].valid /\ ptes[2][v].valid /\ ptes[2][v].pfn = ptes[1][v].pfn
  /\ \E v \in VPNs : ptes[0][v].valid

\* C18: after switch_process(pid) the current process has that pid and ptbr
\* is its table; the process is appended at the tail of the ready queue
\* exactly when pid was not in it; no call removes a process from the queue
\* and no two processes of the queue have the same pid.
C18_SwitchMakesPidCurrent ==
  [][~crashed' =>
       /\ (op'.name \in {"fork", "switch"}) =>
            /\ current' \in 1 .. Len(processes') /\ processes'[current'] = op'.pid
            /\ ptbr' = current'
            /\ IF \E k \in 1 .. Len(processes) : processes[k] = op'.pid
               THEN processes' = processes
               ELSE processes' = Append(processes, op'.pid)
       /\ Len(processes') >= Len(processes)
       /\ \A k \in 1 .. Len(processes) : processes'[k] = processes[k]
       /\ \A j, k \in 1 .. Len(processes') :
            processes'[j] = processes'[k] => j = k]_vars

\* Both kinds of switch_process happened: two processes are in the queue
\* and the last call went back to the first of them.
C18_Witness ==
  /\ op.name = "switch" /\ ~crashed /\ Len(processes) = 2
  /\ current = 1 /\ ptbr = 1 /\ processes[1] = op.pid /\ processes[2] # op.pid

\* C19: if an entry of the current process is valid and writable, no valid
\* PTE of any other process has the same frame.
C19_WritableFrameNotShared ==
  ~crashed =>
    \A v \in VPNs :
      (/\ outer_ptes[current][pd_index(v)] = "heap"
       /\ ptes[current][v].valid /\ ptes[current][v].writable) =>
        \A s \in Live \ {current}, u \in VPNs :
          ~(/\ outer_ptes[s][pd_index(u)] = "heap"
            /\ ptes[s][u].valid /\ ptes[s][u].pfn = ptes[current][v].pfn)

\* C20: a page that the current process allocated with the write bit, and
\* that is still valid in it, is writable or private.
C20_WritePageStaysWritableOrPrivate ==
  ~crashed =>
    \A v \in VPNs :
      (alloced[current][v] = "w" /\ ptes[current][v].valid) =>
        ptes[current][v].writable \/ ptes[current][v].private = 1

=============================================================================
